---- MODULE Spec2Model ----
(***************************************************************************)
(* github_backup: the paginated, rate-limited, retrying fetcher             *)
(* (retrieve_data_gen, _get_response and their helpers) and the resource   *)
(* synchronizers built on it, as state machines.                           *)
(*                                                                         *)
(* One step of the fetcher is one answer of urlopen together with all the  *)
(* code that runs until the generator next blocks in urlopen, suspends at  *)
(* a yield, returns, or exits.  The consumer of the generator (list() in   *)
(* retrieve_data, the for loop of backup_pulls) is a second kind of step:  *)
(* it takes the yielded item and resumes the generator.                    *)
(***************************************************************************)
EXTENDS Integers, Sequences, FiniteSets, TLC

VARIABLES
    single_request,  \* argument of retrieve_data_gen
    throttle_limit,  \* args.throttle_limit
    pc,              \* where the generator is: start, urlopen, yield, done, exit
    page,            \* local page of retrieve_data_gen
    request,         \* the request object handed to urlopen
    site,            \* which call of _get_response is open: "page" (l.266) or "retry" (l.284)
    retries,         \* local retries of retrieve_data_gen
    r,               \* the response the generator is working on
    idx,             \* 1-based position in the body of the item suspended at yield
    out,             \* number of items the consumer has received
    slept,           \* time.sleep calls made while handling the latest response
    urlErrs,         \* connection errors raised by urlopen in the open _get_response call, 0 once it returned
    rlWaits,         \* rate-limit waits made in the open _get_response call, 0 once it returned
    reissues,        \* times the request of the current page was issued again after a 502
    clock,           \* gm_now as read in the open _get_response call, 0 once it returned
    stderr,          \* diagnostics written by log_error
    exit_code        \* status passed to sys.exit, 0 while running

fvars == <<single_request, throttle_limit, pc, page, request, site, retries, r,
           idx, out, slept, urlErrs, rlWaits, reissues, clock, stderr, exit_code>>

VARIABLES
    since,                \* args.since, <<>> when None
    include_pull_details, \* args.include_pull_details
    skip_existing,        \* args.skip_existing
    lists,                \* the server's pull lists, one per state requested
    ppc,                  \* where backup_pulls is: begin, list, save, done, skipped
    pull_state,           \* the 'state' query argument of the list being read
    pulls,                \* local pulls of backup_pulls: number -> updated_at of the pull kept
    saved,                \* the pulls/<number>.json files written: number -> updated_at
    listReqs              \* page requests issued so far for the list of each state

pvars == <<since, include_pull_details, skip_existing, lists, ppc, pull_state,
           pulls, saved, listReqs>>

VARIABLES
    include_pulls,       \* args.include_pulls
    include_everything,  \* args.include_everything
    api_applies_since,   \* whether the issues endpoint applies the since query argument
    ipc,                 \* where backup_issues is: begin, fetch, save, done, skipped, exit
    issue_state,         \* loop variable issue_state of backup_issues
    issues,              \* local issues of backup_issues: number -> issue
    issues_skipped,      \* local issues_skipped of backup_issues
    seen,                \* every entry the for loops of lines 661-666 went over, in order
    queries,             \* the query_args of the list requests made
    isaved               \* the issues/<number>.json files written: number -> issue

ivars == <<include_pulls, include_everything, api_applies_since, ipc, issue_state,
           issues, issues_skipped, seen, queries, isaved>>

VARIABLES
    incremental,       \* args.incremental
    include_flags,     \* the passes whose own include flag is set (args.include_<pass>)
    auth,              \* whether get_auth(args) finds credentials
    repositories,      \* the filtered repositories handed to backup_repositories
    last_update_file,  \* content of <output_directory>/last_update, <<>> when the file is absent
    last_update,       \* local last_update of backup_repositories, <<>> before line 563
    localtime,         \* the local time formatted at line 563, <<>> when it was not read
    prior,             \* content of the last_update file when the process started
    rpc,               \* where the run is: start, begin, loop, done, exit
    step,              \* position in the schedule of passes of this run
    last,              \* what the pass executed last did
    writes,            \* writes of the last_update file made by this process
    run,               \* number of the process: runs follow one another on one output directory
    clean,             \* every pass of this run so far has written its output
    rerun              \* the run before ended done and clean, over the same repositories

rvars == <<incremental, include_flags, auth, repositories, last_update_file,
           last_update, localtime, prior, rpc, step, last, writes, run,
           clean, rerun>>

VARIABLES
    bare_clone,   \* argument bare_clone of fetch_repository
    lfs_clone,    \* argument lfs_clone of fetch_repository
    local_dir,    \* what is at local_dir: absent, worktree, bare, other
    has_origin,   \* whether the local repository has a remote named origin
    origin_url,   \* the URL of that remote: remote, stale, none
    mpc,          \* where fetch_repository is: begin, probe, update, fetch, clone, done, raised
    initialized,  \* exit code of git ls-remote, -1 before it ran
    cmds,         \* the git commands run, in order
    remote_url,   \* argument remote_url of fetch_repository: its user name and password
    shown         \* the lines written to stdout and stderr, in order

mvars == <<bare_clone, lfs_clone, local_dir, has_origin, origin_url, mpc,
           initialized, cmds, remote_url, shown>>

VARIABLES
    filter_args,              \* args of filter_repositories: user, fork, private, languages, name_regex
    unfiltered_repositories,  \* its argument unfiltered_repositories
    filtered_repositories,    \* the list it returns
    xpc                       \* where filter_repositories is: none, call, done

xvars == <<filter_args, unfiltered_repositories, filtered_repositories, xpc>>

VARIABLES
    asset_size,   \* number of chunks the asset is made of
    written,      \* number of chunks in the file at path, -1 when there is no file
    dpc,          \* where download_file is: none, call, open, read, done, raised
    calls,        \* calls of download_file for this asset, one in each run
    opens         \* requests made for the asset

dvars == <<asset_size, written, dpc, calls, opens>>

VARIABLES
    repo_url,     \* what get_github_repo_url returned for the repository
    wiki_url,     \* the remote_url handed to fetch_repository for the wiki
    wpc           \* where the wiki pass is: none, call, done

wvars == <<repo_url, wiki_url, wpc>>

\* the variables of the components other than the fetcher and backup_pulls
ovars == <<ivars, rvars, mvars, xvars, dvars, wvars>>

vars == <<fvars, pvars, ovars>>

(***************************************************************************)
(* Bounds of the model                                                     *)
(***************************************************************************)
\* the collection served has at most this many pages
MaxPage == 3
\* the server answers at most this many rate-limited 403 in a row
MaxRateLimited == 2
\* urlopen raises at most this many connection errors in a row
MaxUrlErrors == 5

(***************************************************************************)
(* Program constants                                                       *)
(***************************************************************************)
per_page == 100
MaxRetries502 == 3
RetryDelay == 5
MinWait == 10
retry_timeout == 3
ThrottlePause == 30
ExitStatus == 1

Max(a, b) == IF a >= b THEN a ELSE b

(***************************************************************************)
(* Responses.  Headers are a set of <<name, value>> pairs, so that an      *)
(* absent header is really absent.                                         *)
(***************************************************************************)
Remaining == "x-ratelimit-remaining"
Reset == "x-ratelimit-reset"

\* headers.get(name, default)
HeaderGet(headers, name, default) ==
    IF \E h \in headers : h[1] = name
    THEN (CHOOSE h \in headers : h[1] = name)[2]
    ELSE default

Reason(code) ==
    CASE code = 200 -> "OK"
      [] code = 403 -> "Forbidden"
      [] code = 404 -> "Not Found"
      [] code = 502 -> "Bad Gateway"
      [] OTHER -> ""

\* _construct_request(per_page, page, ...)
_construct_request(size, pg) == [per_page |-> size, page |-> pg]

\* a response: its status, its headers, its parsed body (a list of len items or
\* an object) and the request it answers
NoResponse == [code |-> 0, headers |-> {}, kind |-> "none", len |-> 0,
               url |-> _construct_request(0, 0)]

\* the values of gm_now the clock may show
Clock == {100, 120}

RemainingHeaders == {{}, {<<Remaining, 0>>}, {<<Remaining, 5>>}, {<<Remaining, 6>>}}
ResetHeaders == {{}, {<<Reset, 0>>}, {<<Reset, 95>>}, {<<Reset, 105>>},
                 {<<Reset, 111>>}, {<<Reset, 130>>}}

\* bodies of a 200 answer: a list of len items or a single object
ListLens == {0, 1, per_page - 1, per_page}
OkBodies(pg, single) ==
    {[kind |-> "list", len |-> n] :
        n \in IF pg < MaxPage THEN ListLens ELSE ListLens \ {per_page}}
    \cup (IF single \/ pg < MaxPage THEN {[kind |-> "dict", len |-> 1]} ELSE {})

\* limit_remaining = int(headers.get('x-ratelimit-remaining', 0))
limit_remaining(headers) == HeaderGet(headers, Remaining, 0)

\* exc.code == 403 and limit_remaining < 1
\* (variant: a remaining count of 0 is not taken as used up)
RateLimitedMutant(code, remaining) == code = 403 /\ remaining < 0
RateLimited(code, remaining) == code = 403 /\ remaining < 1

\* what the server may answer to the request req
ServerResponses(req, single, waits) ==
    {[code |-> 200, headers |-> h, kind |-> b.kind, len |-> b.len, url |-> req] :
        h \in RemainingHeaders \ {{<<Remaining, 0>>}}, b \in OkBodies(req.page, single)}
    \cup {[code |-> c, headers |-> h, kind |-> "dict", len |-> 1, url |-> req] :
        c \in {404, 502}, h \in {{}, {<<Remaining, 6>>}}}
    \cup {[code |-> 403, headers |-> h, kind |-> "dict", len |-> 1, url |-> req] :
        h \in {{<<Remaining, 5>>}}}
    \cup (IF waits < MaxRateLimited
          THEN {[code |-> 403, headers |-> h1 \cup h2, kind |-> "dict", len |-> 1,
                 url |-> req] :
                  h1 \in {{}, {<<Remaining, 0>>}}, h2 \in ResetHeaders}
          ELSE {})

(***************************************************************************)
(* Pure helpers of the fetcher                                             *)
(***************************************************************************)
\* args.throttle_limit and limit_remaining <= args.throttle_limit
ShouldThrottle(limit, remaining) == limit # 0 /\ remaining <= limit

\* while retries < 3 and status_code == 502
\* (variant: one retry too many)
Retry502Mutant(n, code) == n <= MaxRetries502 /\ code = 502
Retry502(n, code) == n < MaxRetries502 /\ code = 502

\* if status_code != 200: ... log_error(errors)
\* (variant: a 404 is let through to the body handling)
FatalStatusMutant(code) == code \notin {200, 404}
FatalStatus(code) == code # 200

\* reset = int(headers.get('x-ratelimit-reset', 0)) or gm_now
\* delta = max(10, reset - gm_now)
\* (variant: the floor of 10 seconds is lost)
deltaMutant(headers, gm_now) ==
    LET h == HeaderGet(headers, Reset, 0)
        reset == IF h # 0 THEN h ELSE gm_now
    IN  Max(0, reset - gm_now)
delta(headers, gm_now) ==
    LET h == HeaderGet(headers, Reset, 0)
        reset == IF h # 0 THEN h ELSE gm_now
    IN  Max(MinWait, reset - gm_now)

\* _request_url_error: retry_timeout -= 1; if retry_timeout >= 0: return True
\* the decrement acts on the callee's copy of the caller's retry_timeout
_request_url_error(timeout) ==
    LET left == timeout - 1
    IN  left >= 0

\* if len(response) < per_page: break
\* (variant: off by one, a page of per_page - 1 items is not the last)
ShortPageMutant(len) == len < per_page - 1
ShortPage(len) == len < per_page

\* lines 303-307 with errors empty (_get_response never adds to errors):
\* a single request ends the loop, otherwise the loop goes to the next page
AfterPage(single) == IF single THEN "done" ELSE "next"

\* lines 298-299, then 303-307
\* (variant: a full page ends the loop too)
AfterListMutant(len, single) == IF len <= per_page THEN "done" ELSE AfterPage(single)
AfterList(len, single) == IF ShortPage(len) THEN "done" ELSE AfterPage(single)

\* lines 293-301: what the generator does with the body of a 200 answer
OnBody(resp, single) ==
    IF resp.kind = "list"
    THEN IF resp.len > 0 THEN "yield" ELSE AfterList(resp.len, single)
    ELSE IF resp.kind = "dict" /\ single THEN "yield" ELSE AfterPage(single)

\* the generator resumed after the yield of item i
Resume(resp, i, single) ==
    IF resp.kind = "list"
    THEN IF i < resp.len THEN "yield" ELSE AfterList(resp.len, single)
    ELSE AfterPage(single)

(***************************************************************************)
(* The generator retrieve_data_gen                                         *)
(***************************************************************************)
\* control moves on: suspend at the yield of item i, return, or request the
\* next page; idx keeps how many items of the body were yielded
Goto(to, i) ==
    /\ urlErrs' = 0
    /\ rlWaits' = 0
    /\ CASE to = "yield" ->
              /\ pc' = "yield"
              /\ idx' = i
              /\ UNCHANGED <<page, request, site, reissues>>
         [] to = "done" ->
              /\ pc' = "done"
              /\ idx' = i - 1
              /\ UNCHANGED <<page, request, site, reissues>>
         [] to = "next" ->
              /\ pc' = "urlopen"
              /\ idx' = 0
              /\ page' = page + 1
              /\ request' = _construct_request(per_page, page + 1)
              /\ site' = "page"
              /\ reissues' = 0

InitFetch ==
    /\ single_request \in BOOLEAN
    /\ throttle_limit \in {0, 5}
    /\ pc = "start"
    /\ page = 0
    /\ request = _construct_request(per_page, 0)
    /\ site = "page"
    /\ retries = 0
    /\ r = NoResponse
    /\ idx = 0
    /\ out = 0
    /\ slept = <<>>
    /\ urlErrs = 0
    /\ rlWaits = 0
    /\ reissues = 0
    /\ clock = 0
    /\ stderr = <<>>
    /\ exit_code = 0

\* backup_issues is not running
IssuesIdle ==
    /\ include_pulls = FALSE
    /\ include_everything = FALSE
    /\ api_applies_since = TRUE
    /\ ipc = "none"
    /\ issue_state = "none"
    /\ issues = <<>>
    /\ issues_skipped = 0
    /\ seen = <<>>
    /\ queries = <<>>
    /\ isaved = <<>>

\* no pass has run yet
NoPass ==
    [repo |-> 0, pass |-> "none", marker |-> FALSE, requests |-> 0, failure |-> 0,
     outcome |-> "none", wrote |-> FALSE]

\* backup_repositories is not running
RunIdle ==
    /\ incremental = FALSE
    /\ include_flags = {}
    /\ auth = FALSE
    /\ repositories = <<>>
    /\ last_update_file = <<>>
    /\ last_update = <<>>
    /\ localtime = <<>>
    /\ prior = <<>>
    /\ rpc = "none"
    /\ step = 0
    /\ last = NoPass
    /\ writes = 0
    /\ run = 0
    /\ clean = TRUE
    /\ rerun = FALSE

\* fetch_repository is not running
MirrorIdle ==
    /\ bare_clone = FALSE
    /\ lfs_clone = FALSE
    /\ local_dir = "absent"
    /\ has_origin = FALSE
    /\ origin_url = "none"
    /\ mpc = "none"
    /\ initialized = -1
    /\ cmds = <<>>
    /\ remote_url = [username |-> "", password |-> ""]
    /\ shown = <<>>

\* filter_repositories is not running
FilterIdle ==
    /\ filter_args = [user |-> "", fork |-> FALSE, private |-> FALSE,
                      languages |-> <<>>, name_regex |-> <<>>]
    /\ unfiltered_repositories = <<>>
    /\ filtered_repositories = <<>>
    /\ xpc = "none"

\* download_file is not running
DownloadIdle ==
    /\ asset_size = 0
    /\ written = -1
    /\ dpc = "none"
    /\ calls = 0
    /\ opens = 0

\* no wiki is being mirrored
WikiIdle ==
    /\ repo_url = <<>>
    /\ wiki_url = <<>>
    /\ wpc = "none"

\* the first next() on the generator: lines 258-266 up to urlopen
Start ==
    /\ pc = "start"
    /\ Goto("next", 0)
    /\ listReqs' = IF ppc = "list"
                    THEN [listReqs EXCEPT ![pull_state] = @ + 1]
                    ELSE listReqs
    /\ UNCHANGED <<single_request, throttle_limit, retries, r, out, slept, clock,
                   stderr, exit_code>>
    /\ UNCHANGED <<since, include_pull_details, skip_existing, lists, ppc,
                   pull_state, pulls, saved>>
    /\ UNCHANGED ovars

\* urlopen raises URLError or socket.error: lines 332-344
UrlError ==
    /\ pc = "urlopen"
    /\ urlErrs < MaxUrlErrors
    /\ urlErrs' = urlErrs + 1
    /\ IF _request_url_error(retry_timeout)
       THEN UNCHANGED <<pc, stderr, exit_code>>
       ELSE /\ pc' = "exit"
            /\ stderr' = Append(stderr, "timed out to much, skipping!")
            /\ exit_code' = ExitStatus
    /\ UNCHANGED <<single_request, throttle_limit, page, request, site, retries,
                   r, idx, out, slept, rlWaits, reissues, clock>>
    /\ UNCHANGED pvars
    /\ UNCHANGED ovars

\* a 403 with the quota used up: _request_http_error sleeps and
\* _get_response calls urlopen again with the same request
RateLimitWait(resp, gm_now) ==
    /\ slept' = <<[why |-> "ratelimit", secs |-> delta(resp.headers, gm_now)]>>
    /\ rlWaits' = rlWaits + 1
    /\ r' = resp
    /\ clock' = gm_now
    /\ UNCHANGED <<pc, page, request, site, retries, idx, urlErrs, reissues,
                   stderr, exit_code>>

\* _get_response returns resp: lines 268-307 up to the next urlopen, yield,
\* return or exit
Returned(resp) ==
    LET throttled == site = "page"
                     /\ ShouldThrottle(throttle_limit, limit_remaining(resp.headers))
        pause == IF throttled
                 THEN <<[why |-> "throttle", secs |-> ThrottlePause]>>
                 ELSE <<>>
        n == IF site = "page" THEN 0 ELSE retries
    IN  /\ r' = resp
        /\ clock' = 0
        /\ IF Retry502(n, resp.code)
           THEN /\ slept' = Append(pause, [why |-> "retry502", secs |-> RetryDelay])
                /\ retries' = n + 1
                /\ reissues' = reissues + 1
                /\ request' = _construct_request(per_page, page)
                /\ site' = "retry"
                /\ urlErrs' = 0
                /\ rlWaits' = 0
                /\ UNCHANGED <<pc, page, idx, stderr, exit_code>>
           ELSE /\ slept' = pause
                /\ retries' = n
                /\ IF FatalStatus(resp.code)
                   THEN /\ pc' = "exit"
                        /\ stderr' = Append(stderr, [code |-> resp.code,
                                                     reason |-> Reason(resp.code)])
                        /\ exit_code' = ExitStatus
                        /\ urlErrs' = 0
                        /\ rlWaits' = 0
                        /\ UNCHANGED <<page, request, site, idx, reissues>>
                   ELSE /\ Goto(OnBody(resp, single_request), 1)
                        /\ UNCHANGED <<stderr, exit_code>>

\* urlopen answers (a response or an HTTPError): lines 328-347, then 268-307
Respond ==
    /\ pc = "urlopen"
    /\ \E resp \in ServerResponses(request, single_request, rlWaits) :
         IF RateLimited(resp.code, limit_remaining(resp.headers))
         THEN \E gm_now \in Clock : RateLimitWait(resp, gm_now)
         ELSE Returned(resp)
    /\ UNCHANGED <<single_request, throttle_limit, out>>
    /\ UNCHANGED pvars
    /\ UNCHANGED ovars

\* retrieve_data: list() takes the yielded item and resumes the generator
Consume ==
    /\ pc = "yield"
    /\ out' = out + 1
    /\ Goto(Resume(r, idx, single_request), idx + 1)
    /\ UNCHANGED <<single_request, throttle_limit, retries, r, slept, clock,
                   stderr, exit_code>>
    /\ UNCHANGED pvars
    /\ UNCHANGED ovars

\* a call of retrieve_data outside backup_pulls
Init ==
    /\ InitFetch
    /\ since = <<>>
    /\ include_pull_details = FALSE
    /\ skip_existing = FALSE
    /\ lists = <<>>
    /\ ppc = "none"
    /\ pull_state = "none"
    /\ pulls = <<>>
    /\ saved = <<>>
    /\ listReqs = <<>>
    /\ IssuesIdle
    /\ RunIdle
    /\ MirrorIdle
    /\ FilterIdle
    /\ DownloadIdle
    /\ WikiIdle

Next == Start \/ UrlError \/ Respond \/ Consume

Spec == Init /\ [][Next]_vars

(***************************************************************************)
(* backup_pulls.  updated_at and since are fixed-width timestamp strings,  *)
(* modelled as tuples of digits and compared as Python compares strings.   *)
(* A pull list on the server is a sequence of runs of pulls with the same  *)
(* updated_at; the pull at position k of the list of state st has number   *)
(* PullNumber(st, k).  Comment and commit attachment (lines 748-753) is    *)
(* not requested in the runs modelled.                                     *)
(***************************************************************************)
NoSince == <<>>
T1 == <<1, 9>>
T2 == <<2, 0>>
T3 == <<2, 1>>

\* a < b on strings of the same width
RECURSIVE StrLess(_, _)
StrLess(a, b) ==
    IF a = <<>> \/ b = <<>> THEN a = <<>> /\ b # <<>>
    ELSE IF Head(a) # Head(b) THEN Head(a) < Head(b)
    ELSE StrLess(Tail(a), Tail(b))

\* args.since and pull['updated_at'] < args.since
\* (variant: <= in place of <)
OlderMutant(updated_at, cutoff) ==
    cutoff # NoSince /\ (StrLess(updated_at, cutoff) \/ updated_at = cutoff)
Older(updated_at, cutoff) == cutoff # NoSince /\ StrLess(updated_at, cutoff)

\* not args.since or pull['updated_at'] >= args.since
Kept(updated_at, cutoff) == cutoff = NoSince \/ ~StrLess(updated_at, cutoff)

\* lengths of the runs of a list that reaches over a page boundary
RunLens == {0, 1, per_page - 1}
\* lengths of the runs of a short list
ShortRunLens == {0, 1}

Runs(order, n1, n2, n3) ==
    <<[updated_at |-> order[1], n |-> n1], [updated_at |-> order[2], n |-> n2],
      [updated_at |-> order[3], n |-> n3]>>

\* newest first, as the API sorts with sort=updated, direction=desc
Descending == <<T3, T2, T1>>
Ascending == <<T1, T2, T3>>

LongLists ==
    {Runs(Descending, a, b, c) : a \in RunLens, b \in RunLens, c \in RunLens}
    \cup {Runs(Ascending, a, b, c) : a \in ShortRunLens, b \in ShortRunLens,
                                     c \in ShortRunLens}
ShortLists ==
    {Runs(Descending, a, b, c) : a \in ShortRunLens, b \in ShortRunLens,
                                 c \in ShortRunLens}

ListLen(list) == list[1].n + list[2].n + list[3].n

\* updated_at of the pull at position k
UpdatedAt(list, k) ==
    IF k <= list[1].n THEN list[1].updated_at
    ELSE IF k <= list[1].n + list[2].n THEN list[2].updated_at
    ELSE list[3].updated_at

PullNumber(st, k) == IF st = "closed" THEN 2 * k + 1 ELSE 2 * k

\* number of items on page pg of a list of n items
PageLen(n, pg) ==
    LET rest == n - (pg - 1) * per_page
    IN  IF rest <= 0 THEN 0 ELSE IF rest >= per_page THEN per_page ELSE rest

\* the answers of the pulls endpoint to a page request: the page of the list,
\* or an error status
PullsResponses(req, list) ==
    {[code |-> 200, headers |-> {<<Remaining, 6>>}, kind |-> "list",
      len |-> PageLen(ListLen(list), req.page), url |-> req],
     [code |-> 404, headers |-> {<<Remaining, 6>>}, kind |-> "dict", len |-> 1,
      url |-> req]}

\* the pull the generator is suspended on
Position == (r.url.page - 1) * per_page + idx
CurrentPull ==
    [number |-> PullNumber(pull_state, Position),
     updated_at |-> UpdatedAt(lists[pull_state], Position)]

\* pull_states of lines 714 and 708
PullStates(details) == IF details THEN <<"all">> ELSE <<"open", "closed">>

InitPulls ==
    /\ InitFetch
    /\ single_request = FALSE
    /\ throttle_limit = 0
    /\ since \in {NoSince, T2}
    /\ include_pull_details \in BOOLEAN
    /\ skip_existing \in BOOLEAN
    /\ \/ /\ include_pull_details
          /\ \E l \in LongLists : lists = [st \in {"all"} |-> l]
       \/ /\ ~include_pull_details
          /\ \E l1 \in LongLists, l2 \in ShortLists :
                lists = [st \in {"open", "closed"} |-> IF st = "open" THEN l1 ELSE l2]
    /\ ppc = "begin"
    /\ pull_state = "none"
    /\ pulls = <<>>
    /\ saved = <<>>
    /\ listReqs = [st \in DOMAIN lists |-> 0]
    /\ IssuesIdle
    /\ RunIdle
    /\ MirrorIdle
    /\ FilterIdle
    /\ DownloadIdle
    /\ WikiIdle

\* a new generator for the list of state st: retrieve_data_gen is called,
\* nothing of it has run
NewGenerator(st) ==
    /\ pull_state' = st
    /\ pc' = "start"
    /\ page' = 0
    /\ request' = _construct_request(per_page, 0)
    /\ site' = "page"
    /\ idx' = 0
    /\ urlErrs' = 0
    /\ rlWaits' = 0
    /\ reissues' = 0

\* the for loop over a list is left (break or StopIteration): the next state's
\* list, or the saving loop
\* (variant: leaving the first list leaves the loop over the states too)
LeaveListMutant ==
    /\ ppc' = "save"
    /\ UNCHANGED <<pull_state, pc, page, request, site, idx, urlErrs, rlWaits,
                   reissues>>
LeaveList ==
    LET states == PullStates(include_pull_details)
    IN  IF pull_state = states[Len(states)]
        THEN /\ ppc' = "save"
             /\ UNCHANGED <<pull_state, pc, page, request, site, idx, urlErrs,
                            rlWaits, reissues>>
        ELSE /\ ppc' = "list"
             /\ NewGenerator(states[2])

\* lines 695-717: the skip-existing test, then the first list
BeginPulls ==
    /\ ppc = "begin"
    /\ \E has_pulls_dir \in BOOLEAN :
         IF skip_existing /\ has_pulls_dir
         THEN /\ ppc' = "skipped"
              /\ UNCHANGED <<pull_state, pc, page, request, site, idx, urlErrs,
                             rlWaits, reissues>>
         ELSE /\ ppc' = "list"
              /\ NewGenerator(PullStates(include_pull_details)[1])
    /\ UNCHANGED <<single_request, throttle_limit, retries, r, out, slept, clock,
                   stderr, exit_code>>
    /\ UNCHANGED <<since, include_pull_details, skip_existing, lists, pulls, saved,
                   listReqs>>
    /\ UNCHANGED ovars

\* urlopen answers a page request of the list being read
RespondPulls ==
    /\ ppc = "list"
    /\ pc = "urlopen"
    /\ \E resp \in PullsResponses(request, lists[pull_state]) :
         IF RateLimited(resp.code, limit_remaining(resp.headers))
         THEN \E gm_now \in Clock : RateLimitWait(resp, gm_now)
         ELSE Returned(resp)
    /\ listReqs' = IF pc' = "urlopen"
                   THEN [listReqs EXCEPT ![pull_state] = @ + 1]
                   ELSE listReqs
    /\ UNCHANGED <<single_request, throttle_limit, out>>
    /\ UNCHANGED <<since, include_pull_details, skip_existing, lists, ppc,
                   pull_state, pulls, saved>>
    /\ UNCHANGED ovars

\* lines 722-726 and 733-741: one turn of the for loop over the generator.
\* In detail mode the pull is fetched again as a single object; that fetch
\* either returns the pull or exits the process.
PullsLoop ==
    /\ ppc = "list"
    /\ pc = "yield"
    /\ out' = out + 1
    /\ LET pull == CurrentPull
       IN  IF Older(pull.updated_at, since)
           THEN /\ LeaveList
                /\ UNCHANGED <<pulls, stderr, exit_code>>
           ELSE IF ~Kept(pull.updated_at, since)
           THEN /\ Goto(Resume(r, idx, single_request), idx + 1)
                /\ UNCHANGED <<ppc, pull_state, pulls, stderr, exit_code>>
           ELSE IF ~include_pull_details
           THEN /\ pulls' = (pull.number :> pull.updated_at) @@ pulls
                /\ Goto(Resume(r, idx, single_request), idx + 1)
                /\ UNCHANGED <<ppc, pull_state, stderr, exit_code>>
           ELSE \E ok \in BOOLEAN :
                  IF ok
                  THEN /\ pulls' = (pull.number :> pull.updated_at) @@ pulls
                       /\ Goto(Resume(r, idx, single_request), idx + 1)
                       /\ UNCHANGED <<ppc, pull_state, stderr, exit_code>>
                  ELSE /\ pc' = "exit"
                       /\ stderr' = Append(stderr, [code |-> 404, reason |-> Reason(404)])
                       /\ exit_code' = ExitStatus
                       /\ UNCHANGED <<ppc, pull_state, pulls, page, request, site,
                                      idx, urlErrs, rlWaits, reissues>>
    /\ listReqs' = IF pc' = "urlopen"
                   THEN [listReqs EXCEPT ![pull_state] = @ + 1]
                   ELSE listReqs
    /\ UNCHANGED <<single_request, throttle_limit, retries, r, slept, clock>>
    /\ UNCHANGED <<since, include_pull_details, skip_existing, lists, saved>>
    /\ UNCHANGED ovars

\* the generator has returned: the for loop ends
PullsListEnd ==
    /\ ppc = "list"
    /\ pc = "done"
    /\ LeaveList
    /\ UNCHANGED <<single_request, throttle_limit, retries, r, out, slept, clock,
                   stderr, exit_code>>
    /\ UNCHANGED <<since, include_pull_details, skip_existing, lists, pulls, saved,
                   listReqs>>
    /\ UNCHANGED ovars

\* lines 743-757: every pull kept is written to pulls/<number>.json
SavePulls ==
    /\ ppc = "save"
    /\ saved' = pulls
    /\ ppc' = "done"
    /\ UNCHANGED fvars
    /\ UNCHANGED <<since, include_pull_details, skip_existing, lists, pull_state,
                   pulls, listReqs>>
    /\ UNCHANGED ovars

NextPulls ==
    BeginPulls \/ Start \/ RespondPulls \/ PullsLoop \/ PullsListEnd \/ SavePulls

SpecPulls == InitPulls /\ [][NextPulls]_vars

(***************************************************************************)
(* backup_issues.  retrieve_data is list() over the generator above: a     *)
(* call either returns every item of every page, in order, or exits the    *)
(* process.  An issue is its number, whether it carries the pull_request   *)
(* key, its updated_at and the state of the list that held it.             *)
(***************************************************************************)
\* issue numbers on the server are 1..MaxIssueNumber
MaxIssueNumber == 2
\* the open and the closed list together hold at most this many entries
MaxIssues == 2

\* the fetcher and backup_pulls are not running
FetchIdle ==
    /\ single_request = FALSE
    /\ throttle_limit = 0
    /\ pc = "idle"
    /\ page = 0
    /\ request = _construct_request(per_page, 0)
    /\ site = "page"
    /\ retries = 0
    /\ r = NoResponse
    /\ idx = 0
    /\ out = 0
    /\ slept = <<>>
    /\ urlErrs = 0
    /\ rlWaits = 0
    /\ reissues = 0
    /\ clock = 0
    /\ stderr = <<>>
    /\ exit_code = 0

PullsIdle ==
    /\ include_pull_details = FALSE
    /\ lists = <<>>
    /\ ppc = "none"
    /\ pull_state = "none"
    /\ pulls = <<>>
    /\ saved = <<>>
    /\ listReqs = <<>>

\* what of the fetcher's variables a synchronizer that calls retrieve_data
\* leaves alone when the call is taken as one step
fetchvars == <<single_request, throttle_limit, pc, page, request, site, retries,
               r, idx, out, slept, urlErrs, rlWaits, reissues, clock>>
pullvars == <<include_pull_details, lists, ppc, pull_state, pulls, saved, listReqs>>

SeqsUpTo(S, n) == UNION {[1..k -> S] : k \in 0..n}

IssueEntries(st) ==
    [number : 1..MaxIssueNumber, pull_request : BOOLEAN, updated_at : {T1, T2},
     state : {st}]

\* line 651
\* (variant: include_everything is not looked at)
should_include_pullsMutant(pulls_flag, everything) == pulls_flag
should_include_pulls(pulls_flag, everything) == pulls_flag \/ everything

\* lines 655-660: since is only put in when args.since is set
\* (variant: since is never put in)
query_argsMutant(st, cutoff) == [filter |-> "all", state |-> st, since |-> NoSince]
query_args(st, cutoff) == [filter |-> "all", state |-> st, since |-> cutoff]

\* what the issues endpoint returns of the list it holds
IssuesServed(query, list, applies) ==
    IF applies /\ query.since # NoSince
    THEN SelectSeq(list, LAMBDA e : ~StrLess(e.updated_at, query.since))
    ELSE list

\* line 663
Skipped(issue, should) == issue.pull_request /\ should

\* line 667: issues[issue['number']] = issue
\* (variant: an entry already there is kept)
SetItemMutant(dict, issue) == dict @@ (issue.number :> issue)
SetItem(dict, issue) == (issue.number :> issue) @@ dict

\* lines 661-667: the for loop over _issues
RECURSIVE MergeIssues(_, _, _)
MergeIssues(dict, _issues, should) ==
    IF _issues = <<>> THEN dict
    ELSE MergeIssues(IF Skipped(Head(_issues), should) THEN dict
                     ELSE SetItem(dict, Head(_issues)),
                     Tail(_issues), should)

RECURSIVE CountSkipped(_, _)
CountSkipped(_issues, should) ==
    IF _issues = <<>> THEN 0
    ELSE (IF Skipped(Head(_issues), should) THEN 1 ELSE 0)
         + CountSkipped(Tail(_issues), should)

\* lines 683-688: comments and events are fetched for each issue
WithAttachments == include_everything

InitIssues ==
    /\ FetchIdle
    /\ PullsIdle
    /\ RunIdle
    /\ MirrorIdle
    /\ FilterIdle
    /\ DownloadIdle
    /\ WikiIdle
    /\ since \in {NoSince, T2}
    /\ skip_existing \in BOOLEAN
    /\ include_pulls \in BOOLEAN
    /\ include_everything \in BOOLEAN
    /\ api_applies_since \in BOOLEAN
    /\ ipc = "begin"
    /\ issue_state = "none"
    /\ issues = <<>>
    /\ issues_skipped = 0
    /\ seen = <<>>
    /\ queries = <<>>
    /\ isaved = <<>>

\* lines 637-654: the skip-existing test
BeginIssues ==
    /\ ipc = "begin"
    /\ \E has_issues_dir \in BOOLEAN :
         IF skip_existing /\ has_issues_dir
         THEN ipc' = "skipped" /\ UNCHANGED issue_state
         ELSE ipc' = "fetch" /\ issue_state' = "open"
    /\ UNCHANGED <<include_pulls, include_everything, api_applies_since, issues,
                   issues_skipped, seen, queries, isaved>>
    /\ UNCHANGED <<fetchvars, stderr, exit_code, since, skip_existing, pullvars>>
    /\ UNCHANGED <<rvars, mvars, xvars, dvars, wvars>>

\* lines 655-667: the list of one issue_state is fetched and merged
FetchIssues ==
    /\ ipc = "fetch"
    /\ LET query == query_args(issue_state, since)
           should == should_include_pulls(include_pulls, include_everything)
       IN  /\ queries' = Append(queries, query)
           /\ \/ /\ ipc' = "exit"
                 /\ stderr' = Append(stderr, [code |-> 404, reason |-> Reason(404)])
                 /\ exit_code' = ExitStatus
                 /\ UNCHANGED <<issue_state, issues, issues_skipped, seen>>
              \/ \E list \in SeqsUpTo(IssueEntries(query.state), MaxIssues - Len(seen)) :
                    LET _issues == IssuesServed(query, list, api_applies_since)
                    IN  /\ issues' = MergeIssues(issues, _issues, should)
                        /\ issues_skipped' = issues_skipped + CountSkipped(_issues, should)
                        /\ seen' = seen \o _issues
                        /\ IF issue_state = "open"
                           THEN issue_state' = "closed" /\ UNCHANGED ipc
                           ELSE ipc' = "save" /\ UNCHANGED issue_state
                        /\ UNCHANGED <<stderr, exit_code>>
    /\ UNCHANGED <<include_pulls, include_everything, api_applies_since, isaved>>
    /\ UNCHANGED <<fetchvars, since, skip_existing, pullvars>>
    /\ UNCHANGED <<rvars, mvars, xvars, dvars, wvars>>

\* lines 680-691: one turn of the saving loop; the fetches of comments and
\* events either return or exit the process
SaveIssue ==
    /\ ipc = "save"
    /\ \E number \in DOMAIN issues \ DOMAIN isaved :
       \E ok \in BOOLEAN :
         IF WithAttachments /\ ~ok
         THEN /\ ipc' = "exit"
              /\ stderr' = Append(stderr, [code |-> 404, reason |-> Reason(404)])
              /\ exit_code' = ExitStatus
              /\ UNCHANGED isaved
         ELSE /\ isaved' = (number :> issues[number]) @@ isaved
              /\ UNCHANGED <<ipc, stderr, exit_code>>
    /\ UNCHANGED <<include_pulls, include_everything, api_applies_since,
                   issue_state, issues, issues_skipped, seen, queries>>
    /\ UNCHANGED <<fetchvars, since, skip_existing, pullvars>>
    /\ UNCHANGED <<rvars, mvars, xvars, dvars, wvars>>

\* the saving loop has gone over every issue: backup_issues returns
FinishIssues ==
    /\ ipc = "save"
    /\ DOMAIN isaved = DOMAIN issues
    /\ ipc' = "done"
    /\ UNCHANGED <<include_pulls, include_everything, api_applies_since,
                   issue_state, issues, issues_skipped, seen, queries, isaved>>
    /\ UNCHANGED <<fetchvars, stderr, exit_code, since, skip_existing, pullvars>>
    /\ UNCHANGED <<rvars, mvars, xvars, dvars, wvars>>

NextIssues == BeginIssues \/ FetchIssues \/ SaveIssue \/ FinishIssues

SpecIssues == InitIssues /\ [][NextIssues]_vars

\* a run of backup_pulls or a run of backup_issues
InitSync ==
    \/ InitPulls
    \/ InitIssues

NextSync == NextPulls \/ NextIssues

SpecSync == InitSync /\ [][NextSync]_vars

(***************************************************************************)
(* backup_repositories.  A run is one process: it computes the new         *)
(* last_update, goes over the repositories and over the passes wanted for  *)
(* each, and writes the last_update file.  A pass is taken as one step     *)
(* with the outcomes its function can have: it returns having skipped, it  *)
(* returns having written its output, or a fetch inside it exits the       *)
(* process (retrieve_data_gen, lines 288-291).  Runs follow one another on *)
(* the same output directory with the same arguments and a new listing.    *)
(* A gist is listed only when gists are asked for (lines 509-524), so the  *)
(* test of line 586 holds for every gist listed.                           *)
(***************************************************************************)
\* a listing holds at most this many repositories
MaxRepos == 2
\* at most this many runs follow one another
MaxRuns == 2

\* (variant: pulls before issues)
PassesMutant ==
    <<"repository", "wiki", "pulls", "issues", "milestones", "labels", "hooks",
      "releases">>
Passes ==
    <<"repository", "wiki", "issues", "pulls", "milestones", "labels", "hooks",
      "releases">>

\* the statuses a fetch can end the process with; 502 after the retries
FailureCodes == {404, 500, 502}

\* what time.strftime can give at line 563
LocalTimes == {T2, T3}

\* the repositories the listing is made of: two repositories, one of them
\* with a wiki, and a gist
Repositories ==
    {[updated_at |-> T1, is_gist |-> FALSE, has_wiki |-> TRUE],
     [updated_at |-> T3, is_gist |-> FALSE, has_wiki |-> FALSE],
     [updated_at |-> T3, is_gist |-> TRUE, has_wiki |-> FALSE]}

Listings == SeqsUpTo(Repositories, MaxRepos)

IncludeSets == {{}, {"hooks", "releases"}, {"repository", "issues"}}

\* args.include_<pass> or args.include_everything
Wanted(pass) == pass \in include_flags \/ include_everything

\* lines 586-630: the passes made for one repository, in order
\* (variant: no continue after the clone of a gist)
DuePassesMutant(repository) ==
    SelectSeq(Passes, LAMBDA p : \/ (repository.is_gist /\ p = "repository")
                                 \/ (Wanted(p) /\ (p = "wiki" => repository.has_wiki)))
DuePasses(repository) ==
    IF repository.is_gist
    THEN <<"repository">>
    ELSE SelectSeq(Passes, LAMBDA p : Wanted(p) /\ (p = "wiki" => repository.has_wiki))

\* lines 572-630: the passes of the run, repository after repository
RECURSIVE ScheduleFrom(_)
ScheduleFrom(i) ==
    IF i > Len(repositories) THEN <<>>
    ELSE LET due == DuePasses(repositories[i])
         IN  [k \in 1..Len(due) |-> [repo |-> i, pass |-> due[k]]]
             \o ScheduleFrom(i + 1)

Schedule == ScheduleFrom(1)

\* max() on strings of the same width
MaxString(S) == CHOOSE x \in S : \A y \in S : ~StrLess(x, y)

\* line 563: max(list(updated_at ...) or [time.strftime(...)])
\* (variant: nothing when no repository is listed)
LastUpdateMutant(updated, now) == IF updated = {} THEN NoSince ELSE MaxString(updated)
LastUpdate(updated, now) == MaxString(IF updated = {} THEN {now} ELSE updated)

\* line 632
\* (variant: the file is written in every run)
WritesLastUpdateMutant(incr) == TRUE
WritesLastUpdate(incr) == incr

\* lines 816-817: the SystemExit of a fetch is caught in backup_hooks only
\* (variant: it is caught nowhere)
CatchesSystemExitMutant(pass) == FALSE
CatchesSystemExit(pass) == pass = "hooks"

InitRun ==
    /\ FetchIdle
    /\ PullsIdle
    /\ MirrorIdle
    /\ FilterIdle
    /\ DownloadIdle
    /\ WikiIdle
    /\ since = NoSince
    /\ skip_existing \in BOOLEAN
    /\ include_pulls = FALSE
    /\ include_everything \in BOOLEAN
    /\ api_applies_since = TRUE
    /\ ipc = "none"
    /\ issue_state = "none"
    /\ issues = <<>>
    /\ issues_skipped = 0
    /\ seen = <<>>
    /\ queries = <<>>
    /\ isaved = <<>>
    /\ incremental \in BOOLEAN
    /\ include_flags \in IF include_everything THEN {{}} ELSE IncludeSets
    /\ auth \in BOOLEAN
    /\ repositories = <<>>
    /\ last_update_file = <<>>
    /\ last_update = <<>>
    /\ localtime = <<>>
    /\ prior = <<>>
    /\ rpc = "start"
    /\ step = 0
    /\ last = NoPass
    /\ writes = 0
    /\ run = 1
    /\ clean = TRUE
    /\ rerun = FALSE

\* what the passes and the steps around them leave alone
runargs == <<incremental, include_flags, auth, repositories, run, rerun>>
othervars == <<fetchvars, pullvars, ivars, mvars, xvars, dvars, wvars, skip_existing>>

\* retrieve_repositories and filter_repositories: the listing of this run;
\* until then repositories holds the listing of the run before
RetrieveRepositories ==
    /\ rpc = "start"
    /\ repositories' \in Listings
    /\ rerun' = (rerun /\ repositories' = repositories)
    /\ rpc' = "begin"
    /\ UNCHANGED <<incremental, include_flags, auth, run, last_update_file,
                   last_update, localtime, prior, step, last, writes, clean>>
    /\ UNCHANGED <<othervars, since, stderr, exit_code>>

\* lines 562-570: the new last_update and args.since
BeginRun ==
    /\ rpc = "begin"
    /\ LET updated == {repositories[i].updated_at : i \in DOMAIN repositories}
       IN  IF incremental
           THEN /\ IF updated = {}
                   THEN \E now \in LocalTimes :
                          /\ localtime' = now
                          /\ last_update' = LastUpdate(updated, now)
                   ELSE /\ localtime' = <<>>
                        /\ last_update' = LastUpdate(updated, <<>>)
                /\ since' = last_update_file
           ELSE /\ since' = NoSince
                /\ UNCHANGED <<localtime, last_update>>
    /\ rpc' = "loop"
    /\ step' = 1
    /\ UNCHANGED <<runargs, last_update_file, prior, last, writes, clean>>
    /\ UNCHANGED <<othervars, stderr, exit_code>>

\* the pass at the head of the schedule is of this kind
Due(kind) ==
    /\ rpc = "loop"
    /\ step <= Len(Schedule)
    /\ Schedule[step].pass = kind

\* the pass returns to the loop, or the process ends in it
PassEnds(rec, fatal) ==
    /\ last' = rec
    /\ clean' = (clean /\ rec.outcome \in {"fetched", "saved"})
    /\ IF fatal
       THEN /\ rpc' = "exit"
            /\ exit_code' = ExitStatus
            /\ stderr' = Append(stderr, [code |-> rec.failure,
                                         reason |-> Reason(rec.failure)])
            /\ UNCHANGED step
       ELSE /\ step' = step + 1
            /\ UNCHANGED <<rpc, exit_code, stderr>>
    /\ UNCHANGED <<runargs, last_update_file, last_update, localtime, prior, writes>>
    /\ UNCHANGED <<othervars, since>>

PassRecord(kind, marker, requests, failure, outcome, wrote) ==
    [repo |-> Schedule[step].repo, pass |-> kind, marker |-> marker,
     requests |-> requests, failure |-> failure, outcome |-> outcome,
     wrote |-> wrote]

\* a synchronizer: it returns at once when skips holds, else it fetches and
\* writes its output, or the fetch fails
Synchronize(kind, marker, skips) ==
    IF skips
    THEN PassEnds(PassRecord(kind, marker, 0, 0, "skipped", FALSE), FALSE)
    ELSE \/ PassEnds(PassRecord(kind, marker, 1, 0, "saved", TRUE), FALSE)
         \/ \E code \in FailureCodes :
              IF CatchesSystemExit(kind)
              THEN PassEnds(PassRecord(kind, marker, 1, code, "unreadable", FALSE),
                            FALSE)
              ELSE PassEnds(PassRecord(kind, marker, 1, code, "exit", FALSE), TRUE)

\* lines 586-611: fetch_repository for the repository or its wiki; git
\* failures are logged, a failing check_output raises CalledProcessError
FetchRepositoryPass ==
    /\ Due("repository") \/ Due("wiki")
    /\ \E raised \in BOOLEAN :
         IF raised
         THEN PassEnds(PassRecord(Schedule[step].pass, FALSE, 0, 0, "raised", FALSE),
                       TRUE)
         ELSE PassEnds(PassRecord(Schedule[step].pass, FALSE, 0, 0, "fetched",
                                  repositories[Schedule[step].repo].is_gist),
                       FALSE)

\* whether the output directory or file of a kind is there: it is when the
\* run before has written it
OutputPresent == IF rerun THEN {TRUE} ELSE BOOLEAN

\* whether <repo_cwd>/issues/.git or <repo_cwd>/pulls/.git is there: no line of
\* the program creates it, so it is still absent after a run with
\* skip_existing that found it absent and wrote the issues and the pulls
KindGitPresent == IF rerun /\ skip_existing THEN {FALSE} ELSE BOOLEAN

\* backup_issues: lines 637-639 test <repo_cwd>/issues/.git
IssuesPass ==
    /\ Due("issues")
    /\ \E has_issues_dir \in KindGitPresent :
         Synchronize("issues", has_issues_dir, skip_existing /\ has_issues_dir)

\* backup_pulls: lines 695-697 test <repo_cwd>/pulls/.git
PullsPass ==
    /\ Due("pulls")
    /\ \E has_pulls_dir \in KindGitPresent :
         Synchronize("pulls", has_pulls_dir, skip_existing /\ has_pulls_dir)

\* backup_milestones: line 762 tests the milestones directory
MilestonesPass ==
    /\ Due("milestones")
    /\ \E isdir \in OutputPresent :
         Synchronize("milestones", isdir, skip_existing /\ isdir)

\* backup_labels through _backup_data: line 963 tests the output file
LabelsPass ==
    /\ Due("labels")
    /\ \E exists \in OutputPresent :
         Synchronize("labels", exists, ~(~skip_existing \/ ~exists))

\* backup_hooks: no request without credentials, then _backup_data
HooksPass ==
    /\ Due("hooks")
    /\ \E exists \in OutputPresent :
         IF ~auth
         THEN PassEnds(PassRecord("hooks", exists, 0, 0, "noauth", FALSE), FALSE)
         ELSE Synchronize("hooks", exists, ~(~skip_existing \/ ~exists))

\* backup_releases: lines 820-848 test nothing before the list request
ReleasesPass ==
    /\ Due("releases")
    /\ \E isdir \in OutputPresent :
         Synchronize("releases", isdir, FALSE)

\* lines 632-633: the loop is over
EndRun ==
    /\ rpc = "loop"
    /\ step > Len(Schedule)
    /\ IF WritesLastUpdate(incremental)
       THEN /\ last_update_file' = last_update
            /\ writes' = writes + 1
       ELSE UNCHANGED <<last_update_file, writes>>
    /\ rpc' = "done"
    /\ UNCHANGED <<runargs, last_update, localtime, prior, step, last, clean>>
    /\ UNCHANGED <<othervars, since, stderr, exit_code>>

\* the program is started again on the same output directory
NewRun ==
    /\ rpc \in {"done", "exit"}
    /\ run < MaxRuns
    /\ rerun' = (rpc = "done" /\ clean)
    /\ clean' = TRUE
    /\ run' = run + 1
    /\ rpc' = "start"
    /\ step' = 0
    /\ last' = NoPass
    /\ writes' = 0
    /\ prior' = last_update_file
    /\ last_update' = <<>>
    /\ localtime' = <<>>
    /\ since' = NoSince
    /\ stderr' = <<>>
    /\ exit_code' = 0
    /\ UNCHANGED <<incremental, include_flags, auth, repositories,
                   last_update_file>>
    /\ UNCHANGED othervars

NextRun ==
    \/ RetrieveRepositories
    \/ BeginRun
    \/ FetchRepositoryPass
    \/ IssuesPass
    \/ PullsPass
    \/ MilestonesPass
    \/ LabelsPass
    \/ HooksPass
    \/ ReleasesPass
    \/ EndRun
    \/ NewRun

SpecRun == InitRun /\ [][NextRun]_vars

(***************************************************************************)
(* fetch_repository.  One step is one git command, or the tests before the *)
(* first one.  subprocess.call and logging_subprocess hand back the exit   *)
(* code of the command; subprocess.check_output raises CalledProcessError  *)
(* when it is not 0.  local_dir holds nothing (absent), a clone with a     *)
(* work tree, a bare clone, or something that is not a repository (other). *)
(***************************************************************************)
\* line 877
NotInitialized == 128

\* exit codes of git ls-remote
ProbeCodes == {0, 1, NotInitialized}

RevParse == "git rev-parse --is-bare-repository"
LsRemoteCommand == "git ls-remote"
RemoteShow == "git remote show"
RemoteRm == "git remote rm origin"
RemoteAdd == "git remote add origin"
RemoteSetUrl == "git remote set-url origin"

\* lines 857-866
\* (variant: the .git test is made for a bare clone too)
clone_existsMutant(bare, dir) == dir = "worktree"
clone_exists(bare, dir) ==
    IF bare THEN dir = "bare" ELSE dir = "worktree"

\* line 877
\* (variant: every failure of the probe counts)
UninitializedMutant(code) == code # 0
Uninitialized(code) == code = NotInitialized

\* lines 898-901
\* (variant: the two commands are exchanged)
FetchCommandMutant(lfs) ==
    IF lfs THEN "git fetch --all --force --tags --prune"
    ELSE "git lfs fetch --all --prune"
FetchCommand(lfs) ==
    IF lfs THEN "git lfs fetch --all --prune"
    ELSE "git fetch --all --force --tags --prune"

\* lines 908-917
\* (variant: --mirror is left out)
CloneCommandMutant(bare, lfs) == IF lfs THEN "git lfs clone" ELSE "git clone"
CloneCommand(bare, lfs) ==
    IF bare
    THEN IF lfs THEN "git lfs clone --mirror" ELSE "git clone --mirror"
    ELSE IF lfs THEN "git lfs clone" ELSE "git clone"

Ran(command, code) == [cmd |-> command, rc |-> code]

\* a URL is the user name and the password urlparse finds in it, '' where
\* there is none; lines 231-254 with get_auth(encode=False, for_git_cli=True),
\* lines 181-200: no credential (ssh_url, clone_url, git_pull_url), a token,
\* the token of an application, a user name with a password
RemoteUrls ==
    { [username |-> "", password |-> ""],
      [username |-> "token", password |-> "x-oauth-basic"],
      [username |-> "x-access-token", password |-> "token"],
      [username |-> "username", password |-> "password"] }

\* a line that shows no URL
NoUrl == [username |-> "none", password |-> "none"]

\* lines 147-155
mask_password(url, secret) ==
    IF url.password = "" THEN url
    ELSE IF url.password = "x-oauth-basic" THEN [url EXCEPT !.username = secret]
    ELSE [url EXCEPT !.password = secret]

\* line 871
masked_remote_url == mask_password(remote_url, "*****")

\* the commands that have remote_url among their arguments: lines 892, 895,
\* 910-917
TakesRemoteUrl(command) ==
    command \in {RemoteAdd, RemoteSetUrl, "git clone", "git clone --mirror",
                 "git lfs clone", "git lfs clone --mirror"}

\* line 75, log_info
Stdout(url) == [stream |-> "stdout", url |-> url]

\* lines 129-131 of logging_subprocess: after a command that did not exit
\* with 0, the name of the program and the code, then the arguments joined
logging_subprocess(popenargs, rc) ==
    IF rc # 0
    THEN <<[stream |-> "stderr", url |-> NoUrl],
           [stream |-> "stderr",
            url |-> IF TakesRemoteUrl(popenargs) THEN remote_url ELSE NoUrl]>>
    ELSE <<>>

InitMirror ==
    /\ FetchIdle
    /\ PullsIdle
    /\ IssuesIdle
    /\ RunIdle
    /\ FilterIdle
    /\ DownloadIdle
    /\ WikiIdle
    /\ since = NoSince
    /\ skip_existing \in BOOLEAN
    /\ bare_clone \in BOOLEAN
    /\ lfs_clone \in BOOLEAN
    /\ local_dir \in {"absent", "worktree", "bare", "other"}
    /\ has_origin \in IF local_dir \in {"worktree", "bare"} THEN BOOLEAN ELSE {FALSE}
    /\ origin_url \in IF has_origin THEN {"remote", "stale"} ELSE {"none"}
    /\ mpc = "begin"
    /\ initialized = -1
    /\ cmds = <<>>
    /\ remote_url \in RemoteUrls
    /\ shown = <<>>

\* what fetch_repository leaves alone
nonmirror == <<fvars, pvars, ivars, rvars, xvars, dvars, wvars>>

\* lines 857-869: clone_exists and the skip-existing test
BeginFetchRepository ==
    /\ mpc = "begin"
    /\ IF bare_clone /\ local_dir # "absent"
       THEN IF local_dir = "other"
            THEN /\ cmds' = <<Ran(RevParse, NotInitialized)>>
                 /\ mpc' = "raised"
            ELSE /\ cmds' = <<Ran(RevParse, 0)>>
                 /\ mpc' = IF clone_exists(bare_clone, local_dir) /\ skip_existing
                           THEN "done" ELSE "probe"
       ELSE /\ cmds' = <<>>
            /\ mpc' = IF clone_exists(bare_clone, local_dir) /\ skip_existing
                      THEN "done" ELSE "probe"
    /\ UNCHANGED <<bare_clone, lfs_clone, local_dir, has_origin, origin_url,
                   initialized, remote_url, shown>>
    /\ UNCHANGED nonmirror

\* lines 873-882: the probe of the remote
LsRemote ==
    /\ mpc = "probe"
    /\ \E code \in ProbeCodes :
         /\ initialized' = code
         /\ cmds' = Append(cmds, Ran(LsRemoteCommand, code))
         /\ mpc' = IF Uninitialized(code) THEN "done"
                   ELSE IF clone_exists(bare_clone, local_dir) THEN "update"
                   ELSE "clone"
         /\ shown' = IF Uninitialized(code)
                     THEN Append(shown, Stdout(masked_remote_url))
                     ELSE shown
    /\ UNCHANGED <<bare_clone, lfs_clone, local_dir, has_origin, origin_url,
                   remote_url>>
    /\ UNCHANGED nonmirror

\* lines 885-896: the remote named origin is made to point at remote_url
UpdateRemote ==
    /\ mpc = "update"
    /\ \/ /\ cmds' = Append(cmds, Ran(RemoteShow, 1))
          /\ shown' = Append(shown, Stdout(NoUrl))
          /\ mpc' = "raised"
          /\ UNCHANGED <<has_origin, origin_url>>
       \/ /\ IF ~has_origin
             THEN \E rc \in {0, 1} :
                    /\ cmds' = cmds \o <<Ran(RemoteShow, 0), Ran(RemoteRm, 1),
                                         Ran(RemoteAdd, rc)>>
                    /\ shown' = Append(shown, Stdout(NoUrl))
                                   \o logging_subprocess(RemoteRm, 1)
                                   \o logging_subprocess(RemoteAdd, rc)
                    /\ has_origin' = (rc = 0)
                    /\ origin_url' = IF rc = 0 THEN "remote" ELSE "none"
             ELSE \E rc \in {0, 1} :
                    /\ cmds' = cmds \o <<Ran(RemoteShow, 0), Ran(RemoteSetUrl, rc)>>
                    /\ shown' = Append(shown, Stdout(NoUrl))
                                   \o logging_subprocess(RemoteSetUrl, rc)
                    /\ origin_url' = IF rc = 0 THEN "remote" ELSE origin_url
                    /\ UNCHANGED has_origin
          /\ mpc' = "fetch"
    /\ UNCHANGED <<bare_clone, lfs_clone, local_dir, initialized, remote_url>>
    /\ UNCHANGED nonmirror

\* lines 898-902
GitFetch ==
    /\ mpc = "fetch"
    /\ \E rc \in {0, 1} :
         /\ cmds' = Append(cmds, Ran(FetchCommand(lfs_clone), rc))
         /\ shown' = shown \o logging_subprocess(FetchCommand(lfs_clone), rc)
    /\ mpc' = "done"
    /\ UNCHANGED <<bare_clone, lfs_clone, local_dir, has_origin, origin_url,
                   initialized, remote_url>>
    /\ UNCHANGED nonmirror

\* lines 904-918: git refuses to clone into a directory that holds something
GitClone ==
    /\ mpc = "clone"
    /\ \E rc \in IF local_dir \in {"absent", "other"} THEN {0, 1} ELSE {1} :
         /\ cmds' = Append(cmds, Ran(CloneCommand(bare_clone, lfs_clone), rc))
         /\ shown' = Append(shown, Stdout(masked_remote_url))
                        \o logging_subprocess(CloneCommand(bare_clone, lfs_clone), rc)
         /\ IF rc = 0
            THEN /\ local_dir' = IF bare_clone THEN "bare" ELSE "worktree"
                 /\ has_origin' = TRUE
                 /\ origin_url' = "remote"
            ELSE UNCHANGED <<local_dir, has_origin, origin_url>>
    /\ mpc' = "done"
    /\ UNCHANGED <<bare_clone, lfs_clone, initialized, remote_url>>
    /\ UNCHANGED nonmirror

NextMirror == BeginFetchRepository \/ LsRemote \/ UpdateRemote \/ GitFetch \/ GitClone

SpecMirror == InitMirror /\ [][NextMirror]_vars

(***************************************************************************)
(* filter_repositories (lines 529-555)                                     *)
(*                                                                         *)
(* A string is a sequence of characters, the empty sequence being a value  *)
(* Python takes for false (None, a missing key, ''). A repository is a     *)
(* record of the keys the function reads; login is "none" where the        *)
(* repository has no owner key.                                            *)
(***************************************************************************)
MaxUnfiltered == 2

\* the repositories the listing is made of
Unfiltered ==
    { [name |-> <<"a">>, login |-> "none", is_starred |-> FALSE, fork |-> TRUE,
       private |-> FALSE, public |-> FALSE, language |-> <<>>],
      [name |-> <<"b">>, login |-> "none", is_starred |-> FALSE, fork |-> FALSE,
       private |-> FALSE, public |-> FALSE, language |-> <<"G", "o">>],
      [name |-> <<"a">>, login |-> "user", is_starred |-> FALSE, fork |-> TRUE,
       private |-> FALSE, public |-> FALSE, language |-> <<>>],
      [name |-> <<"b">>, login |-> "user", is_starred |-> FALSE, fork |-> FALSE,
       private |-> FALSE, public |-> FALSE, language |-> <<"G", "o">>],
      [name |-> <<"a", "b">>, login |-> "user", is_starred |-> FALSE, fork |-> FALSE,
       private |-> TRUE, public |-> FALSE, language |-> <<"C">>],
      [name |-> <<"b", "a">>, login |-> "other", is_starred |-> TRUE, fork |-> FALSE,
       private |-> FALSE, public |-> TRUE, language |-> <<"g", "o">>] }

\* args.user, args.fork, args.private, args.languages, args.name_regex
FilterArgs ==
    [user : {"user"}, fork : BOOLEAN, private : BOOLEAN,
     languages : {<<>>, << <<"g", "o">> >>, << <<"G", "O">> >>},
     name_regex : {<<>>, <<"b">>}]

\* str.lower, lines 544 and 551
LowerChar(c) ==
    CASE c = "G" -> "g"
      [] c = "O" -> "o"
      [] c = "C" -> "c"
      [] OTHER -> c

lower(x) == [i \in 1..Len(x) |-> LowerChar(x[i])]

\* x in list, line 551
In(x, list) == \E i \in 1..Len(list) : list[i] = x

\* re.compile(pattern).match(string), lines 540 and 553, for a pattern of
\* literal characters:
\* the pattern is matched at the start of the string
match(pattern, string) ==
    /\ Len(pattern) <= Len(string)
    /\ SubSeq(string, 1, Len(pattern)) = pattern

\* line 535: r.get('owner', {}).get('login') == args.user
\* (variant: every repository counts as owned)
OwnedMutant(repository, user) == TRUE
Owned(repository, user) == repository.login = user

filter_repositories(args, unfiltered) ==
    LET owned == SelectSeq(unfiltered,
                           LAMBDA repo : Owned(repo, args.user) \/ repo.is_starred)
        name_regex == args.name_regex
        languages == IF args.languages # <<>>
                     THEN [i \in 1..Len(args.languages) |-> lower(args.languages[i])]
                     ELSE <<>>
        unforked == IF ~args.fork
                    THEN SelectSeq(owned, LAMBDA repo : ~repo.fork)
                    ELSE owned
        visible == IF ~args.private
                   THEN SelectSeq(unforked, LAMBDA repo : ~repo.private \/ repo.public)
                   ELSE unforked
        spoken == IF languages # <<>>
                  THEN SelectSeq(visible,
                                 LAMBDA repo : /\ repo.language # <<>>
                                               /\ In(lower(repo.language), languages))
                  ELSE visible
    IN  IF name_regex # <<>>
        THEN SelectSeq(spoken, LAMBDA repo : match(name_regex, repo.name))
        ELSE spoken

InitFilter ==
    /\ FetchIdle
    /\ PullsIdle
    /\ IssuesIdle
    /\ RunIdle
    /\ MirrorIdle
    /\ DownloadIdle
    /\ WikiIdle
    /\ since = NoSince
    /\ skip_existing = FALSE
    /\ filter_args \in FilterArgs
    /\ unfiltered_repositories \in SeqsUpTo(Unfiltered, MaxUnfiltered)
    /\ filtered_repositories = <<>>
    /\ xpc = "call"

\* one call of filter_repositories, lines 529-555
FilterRepositories ==
    /\ xpc = "call"
    /\ filtered_repositories' = filter_repositories(filter_args, unfiltered_repositories)
    /\ xpc' = "done"
    /\ UNCHANGED <<filter_args, unfiltered_repositories>>
    /\ UNCHANGED <<fvars, pvars, ivars, rvars, mvars, dvars, wvars>>

NextFilter == FilterRepositories

SpecFilter == InitFilter /\ [][NextFilter]_vars

(***************************************************************************)
(* download_file (lines 429-458), called for an asset of a release in each *)
(* run (lines 841-848).  The asset is read in chunks; the file at path is  *)
(* created by open(path, 'wb') before the first chunk is read.             *)
(***************************************************************************)
MaxChunks == 3
MaxCalls == 3

InitDownload ==
    /\ FetchIdle
    /\ PullsIdle
    /\ IssuesIdle
    /\ RunIdle
    /\ MirrorIdle
    /\ FilterIdle
    /\ WikiIdle
    /\ since = NoSince
    /\ skip_existing = FALSE
    /\ asset_size \in 0..MaxChunks
    /\ written = -1
    /\ dpc = "call"
    /\ calls = 1
    /\ opens = 0

\* what download_file leaves alone
nondownload == <<fvars, pvars, ivars, rvars, mvars, xvars, wvars>>

\* lines 431-437: nothing is done when there is a file at path
DownloadBegin ==
    /\ dpc = "call"
    /\ dpc' = IF written # -1 THEN "done" ELSE "open"
    /\ UNCHANGED <<asset_size, written, calls, opens>>
    /\ UNCHANGED nondownload

\* lines 440-443: the request, then the file is created empty; an HTTPError,
\* a URLError or a socket error of the request is logged (lines 449-458)
OpenUrl ==
    /\ dpc = "open"
    /\ opens' = opens + 1
    /\ \/ /\ written' = 0
          /\ dpc' = "read"
       \/ /\ dpc' = "done"
          /\ UNCHANGED written
    /\ UNCHANGED <<asset_size, calls>>
    /\ UNCHANGED nondownload

\* lines 444-448: one response.read; the empty chunk ends the loop; a socket
\* error is logged (lines 455-458), an http.client.IncompleteRead is not
\* caught
ReadChunk ==
    /\ dpc = "read"
    /\ \/ /\ written < asset_size
          /\ written' = written + 1
          /\ UNCHANGED dpc
       \/ /\ written = asset_size
          /\ dpc' = "done"
          /\ UNCHANGED written
       \/ /\ dpc' \in {"done", "raised"}
          /\ UNCHANGED written
    /\ UNCHANGED <<asset_size, calls, opens>>
    /\ UNCHANGED nondownload

\* lines 847-848: the next run calls download_file for the same asset
DownloadAgain ==
    /\ dpc \in {"done", "raised"}
    /\ calls < MaxCalls
    /\ calls' = calls + 1
    /\ dpc' = "call"
    /\ UNCHANGED <<asset_size, written, opens>>
    /\ UNCHANGED nondownload

NextDownload == DownloadBegin \/ OpenUrl \/ ReadChunk \/ DownloadAgain

SpecDownload == InitDownload /\ [][NextDownload]_vars

(***************************************************************************)
(* The wiki pass of backup_repositories (lines 604-611): the URL of the    *)
(* wiki is made from the URL of the repository.  A string is a sequence of *)
(* characters; a run of characters without a dot is written as one item.   *)
(***************************************************************************)
MaxNameLen == 5

\* lines 246-252: https://<host>/<owner>/<name>.git
get_github_repo_url(host, name) ==
    <<"https://">> \o host \o <<"/", "owner", "/">> \o name \o <<".", "g", "i", "t">>

\* str.replace(old, new), line 607: every occurrence, from the left, without
\* looking again at what was put in
RECURSIVE replace(_, _, _)
replace(string, old, new) ==
    IF Len(string) < Len(old) THEN string
    ELSE IF SubSeq(string, 1, Len(old)) = old
         THEN new \o replace(SubSeq(string, Len(old) + 1, Len(string)), old, new)
         ELSE <<Head(string)>> \o replace(Tail(string), old, new)

InitWiki ==
    /\ FetchIdle
    /\ PullsIdle
    /\ IssuesIdle
    /\ RunIdle
    /\ MirrorIdle
    /\ FilterIdle
    /\ DownloadIdle
    /\ since = NoSince
    /\ skip_existing = FALSE
    /\ repo_url \in
         { get_github_repo_url(host, name) :
             host \in { <<"github">>, <<"ghe", ".", "g", "i", "t", "hub">> },
             name \in SeqsUpTo({"a", ".", "g", "i", "t"}, MaxNameLen) \ {<<>>} }
    /\ wiki_url = <<>>
    /\ wpc = "call"

\* lines 605-608: the remote_url argument of fetch_repository for the wiki
WikiUrl ==
    /\ wpc = "call"
    /\ wiki_url' = replace(repo_url, <<".", "g", "i", "t">>,
                           <<".", "w", "i", "k", "i", ".", "g", "i", "t">>)
    /\ wpc' = "done"
    /\ UNCHANGED repo_url
    /\ UNCHANGED <<fvars, pvars, ivars, rvars, mvars, xvars, dvars>>

NextWiki == WikiUrl

SpecWiki == InitWiki /\ [][NextWiki]_vars

(***************************************************************************)
(* Claims about the fetcher, checked under Spec                            *)
(***************************************************************************)
IsList(resp) == resp.code = 200 /\ resp.kind = "list"
IsRateLimit(resp) == resp.code = 403 /\ limit_remaining(resp.headers) < 1
ThrottleSleeps == {i \in 1..Len(slept) : slept[i].why = "throttle"}
\* a step in which urlopen answered with a response (not with a connection error)
Answered == pc = "urlopen" /\ urlErrs' # urlErrs + 1

\* C1: once a page is answered 200 with a list of fewer than per_page items
\* (an empty list included), the generator only yields the items of that page
\* and returns: it is never again waiting on a request, and when it has
\* returned it has yielded every item of the page.
C1_ShortPageEndsFetch ==
    (IsList(r) /\ r.len < per_page) =>
        /\ pc \in {"yield", "done"}
        /\ request = r.url
        /\ pc = "yield" => idx \in 1..r.len
        /\ pc = "done" => idx = r.len /\ exit_code = 0

C1_Witness ==
    /\ IsList(r) /\ r.len = per_page - 1
    /\ pc = "done" /\ idx = r.len
    /\ page = 2 /\ out = 2 * per_page - 1

\* C2, as stated: after a page N answered 200 with a list of exactly per_page
\* items the fetch never ends there, whatever single_request is: the next
\* request is issued, and it is for page N+1.
C2_Original ==
    (IsList(r) /\ r.len = per_page) =>
        /\ pc \in {"yield", "urlopen"}
        /\ pc = "urlopen" => request.page = r.url.page + 1

\* C2, amended: with single_request false, after page N answered 200 with a
\* list of exactly per_page items the generator yields them and then issues
\* the request for page N+1; with single_request true it yields them and
\* returns without a further request.
C2_FullPageContinues ==
    (IsList(r) /\ r.len = per_page) =>
        IF single_request
        THEN /\ pc \in {"yield", "done"}
             /\ request = r.url
        ELSE /\ pc \in {"yield", "urlopen"}
             /\ pc = "yield" => request = r.url
             /\ pc = "urlopen" =>
                    /\ request = _construct_request(per_page, r.url.page + 1)
                    /\ page = r.url.page + 1
                    /\ idx = 0

C2_Witness ==
    /\ ~single_request
    /\ IsList(r) /\ r.len = per_page /\ r.url.page = 2
    /\ pc = "urlopen" /\ request.page = 3 /\ out = 2 * per_page

\* C3, as stated: in every call, a page answered 200 with a single object is
\* followed by exactly one yield (that object) and no further request.
C3_ObjectYieldedOnce ==
    (r.code = 200 /\ r.kind = "dict") =>
        /\ pc \in {"yield", "done"}
        /\ request = r.url
        /\ pc = "yield" => idx = 1
        /\ pc = "done" => idx = 1

C5_BoundedConnectionRetries ==
    /\ urlErrs <= retry_timeout + 1
    /\ urlErrs = retry_timeout + 1 => pc = "exit"

\* C6: a 403 whose x-ratelimit-remaining reads below 1 is never fatal: the
\* fetcher sleeps once and opens the same request again, with the page and
\* the 502 budget untouched, however many came before it; a 200 that arrives
\* after such waits is processed as the answer to that same page.
C6_RateLimitRetried ==
    [][/\ (Answered /\ IsRateLimit(r')) =>
            /\ pc' = "urlopen"
            /\ exit_code' = 0
            /\ request' = request
            /\ page' = page
            /\ retries' = retries
            /\ reissues' = reissues
            /\ site' = site
            /\ rlWaits' = rlWaits + 1
            /\ Len(slept') = 1 /\ slept'[1].why = "ratelimit"
       /\ (Answered /\ rlWaits > 0 /\ r'.code = 200) =>
            /\ r'.url = request
            /\ pc' # "exit"
            /\ pc' \in {"yield", "done"} => page' = page
            /\ pc' = "urlopen" => page' = page + 1]_vars

C6_Witness ==
    /\ IsRateLimit(r) /\ pc = "urlopen"
    /\ rlWaits = 2 /\ reissues = 2 /\ retries = 2 /\ page = 2

\* C7: the wait on a rate-limited 403 is max(10, reset - now): 10 when the
\* reset header is absent or reset - now is at most 10, reset - now otherwise.
C7_RateLimitDelta ==
    (IsRateLimit(r) /\ pc = "urlopen" /\ rlWaits > 0) =>
        LET has == \E h \in r.headers : h[1] = Reset
            reset == HeaderGet(r.headers, Reset, 0)
            secs == slept[1].secs
        IN  /\ Len(slept) = 1
            /\ secs >= MinWait
            /\ ~has => secs = MinWait
            /\ (has /\ reset - clock <= MinWait) => secs = MinWait
            /\ (has /\ reset - clock > MinWait) => secs = reset - clock

C7_Witness ==
    /\ IsRateLimit(r) /\ pc = "urlopen" /\ rlWaits > 0
    /\ HeaderGet(r.headers, Reset, 0) = clock + 5
    /\ slept = <<[why |-> "ratelimit", secs |-> 10]>>

C9_ThrottleOnEvery200 ==
    (throttle_limit # 0 /\ r.code = 200
        /\ limit_remaining(r.headers) <= throttle_limit) =>
        /\ Cardinality(ThrottleSleeps) = 1
        /\ \A i \in ThrottleSleeps : slept[i].secs = ThrottlePause

(***************************************************************************)
(* Claims about backup_pulls, checked under SpecPulls                      *)
(***************************************************************************)
SortedDescending(list) ==
    \A i \in 1..3 : \A j \in (i + 1)..3 :
        (list[i].n > 0 /\ list[j].n > 0) =>
            ~StrLess(list[i].updated_at, list[j].updated_at)

\* position of the first pull of the list strictly older than cutoff, 0 if none
FirstOlder(list, cutoff) ==
    IF list[1].n > 0 /\ StrLess(list[1].updated_at, cutoff) THEN 1
    ELSE IF list[2].n > 0 /\ StrLess(list[2].updated_at, cutoff) THEN list[1].n + 1
    ELSE IF list[3].n > 0 /\ StrLess(list[3].updated_at, cutoff)
         THEN list[1].n + list[2].n + 1
    ELSE 0

PageOf(k) == (k - 1) \div per_page + 1

\* C10: with a cutoff and a list sorted newest first, no page beyond the one
\* holding the first strictly older pull is ever requested, and when
\* backup_pulls has saved, no pull older than the cutoff is in the saved set,
\* every pull whose updated_at equals the cutoff is, and the requests made for
\* the list are exactly the pages up to the first older pull (all its pages
\* when there is none).
C10_CutoffPulls ==
    \A st \in DOMAIN lists :
        (since # NoSince /\ SortedDescending(lists[st])) =>
            LET list == lists[st]
                first == FirstOlder(list, since)
            IN  /\ first > 0 => listReqs[st] <= PageOf(first)
                /\ ppc = "done" =>
                      /\ \A k \in 1..ListLen(list) :
                            /\ StrLess(UpdatedAt(list, k), since) =>
                                   PullNumber(st, k) \notin DOMAIN saved
                            /\ UpdatedAt(list, k) = since =>
                                   PullNumber(st, k) \in DOMAIN saved
                      /\ listReqs[st] = IF first > 0 THEN PageOf(first)
                                        ELSE ListLen(list) \div per_page + 1

C10_Witness ==
    /\ ppc = "done" /\ since = T2 /\ ~include_pull_details
    /\ lists["open"] = Runs(Descending, per_page - 1, 1, 1)
    /\ lists["closed"] = Runs(Descending, 1, 1, 1)
    /\ PullNumber("open", per_page) \in DOMAIN saved
    /\ PullNumber("open", per_page + 1) \notin DOMAIN saved
    /\ listReqs["open"] = 2 /\ listReqs["closed"] = 1

(***************************************************************************)
(* Claims about backup_issues, checked under SpecIssues and SpecSync       *)
(***************************************************************************)
Merged == ipc \in {"save", "done"}
PullsWanted == include_pulls \/ include_everything
\* positions of seen that the loop did not skip
NonSkipped == {i \in 1..Len(seen) : ~(seen[i].pull_request /\ PullsWanted)}
\* the last non-skipped position of seen that holds the number n
LastOf(n) ==
    CHOOSE i \in NonSkipped :
        /\ seen[i].number = n
        /\ \A j \in NonSkipped : seen[j].number = n => j <= i

\* C11 as stated: under a cutoff every issue and every pull written has
\* updated_at >= since, whatever the list requests return.
C11_Original ==
    since # NoSince =>
        /\ \A n \in DOMAIN isaved : ~StrLess(isaved[n].updated_at, since)
        /\ \A n \in DOMAIN saved : ~StrLess(saved[n], since)

\* C11: under a cutoff every pull written was listed with updated_at >= since
\* whatever the list requests return; every list request for issues carries
\* since, and every issue written has updated_at >= since when the API
\* applies that argument.
C11_CutoffPersisted ==
    since # NoSince =>
        /\ \A n \in DOMAIN saved : ~StrLess(saved[n], since)
        /\ \A i \in 1..Len(queries) : queries[i].since = since
        /\ api_applies_since =>
              \A n \in DOMAIN isaved : ~StrLess(isaved[n].updated_at, since)

C11_Witness ==
    /\ ipc = "done" /\ since = T2 /\ api_applies_since
    /\ Len(queries) = 2
    /\ DOMAIN isaved = 1..MaxIssueNumber
    /\ \A n \in DOMAIN isaved : isaved[n].updated_at = T2

\* C15: once both lists are merged, the merged set has exactly one entry for
\* each number among the entries that were not skipped, that entry is the one
\* processed last, and the size of the set is the number of distinct numbers.
C15_MergeByNumber ==
    Merged =>
        LET numbers == {seen[i].number : i \in NonSkipped}
        IN  /\ DOMAIN issues = numbers
            /\ Cardinality(DOMAIN issues) = Cardinality(numbers)
            /\ \A n \in numbers : issues[n] = seen[LastOf(n)]
            /\ ipc = "done" => isaved = issues

C15_Witness ==
    /\ ipc = "done"
    /\ Len(seen) = 2
    /\ seen[1].number = seen[2].number
    /\ seen[1].state = "open" /\ seen[2].state = "closed"
    /\ seen[1].updated_at # seen[2].updated_at
    /\ NonSkipped = {1, 2}
    /\ DOMAIN isaved = {seen[2].number}
    /\ isaved[seen[2].number] = seen[2]

\* C16: once both lists are merged: when pulls are asked for (include_pulls
\* or include_everything) no entry of the issue set carries the pull_request
\* key and issues_skipped is the number of entries seen that carry it; when
\* they are not, issues_skipped is 0 and an entry with the key is merged like
\* any other.
C16_PullsSkipped ==
    Merged =>
        LET marked == {i \in 1..Len(seen) : seen[i].pull_request}
        IN  IF PullsWanted
            THEN /\ \A n \in DOMAIN issues : ~issues[n].pull_request
                 /\ \A n \in DOMAIN isaved : ~isaved[n].pull_request
                 /\ issues_skipped = Cardinality(marked)
            ELSE /\ issues_skipped = 0
                 /\ \A i \in marked :
                       /\ seen[i].number \in DOMAIN issues
                       /\ (\A j \in 1..Len(seen) :
                              seen[j].number = seen[i].number => j <= i)
                            => issues[seen[i].number] = seen[i]

C16_Witness ==
    /\ ipc = "done" /\ include_everything /\ ~include_pulls
    /\ Len(seen) = 2
    /\ seen[1].pull_request /\ seen[1].state = "open"
    /\ seen[2].pull_request /\ seen[2].state = "closed"
    /\ issues_skipped = 2
    /\ isaved = <<>>

(***************************************************************************)
(* Claims about backup_repositories, checked under SpecRun                 *)
(***************************************************************************)
Finished == rpc = "done"
ResourceKinds == {"issues", "pulls", "milestones", "labels", "hooks", "releases"}
\* the statuses GitHub answers a request it does not authorize with
RefusalCodes == {401, 403, 404}

\* C12: the last_update file written by a successful incremental run is never
\* less than what a previous run had written.
C12_WatermarkMonotonic ==
    (Finished /\ incremental /\ prior # NoSince) =>
        ~StrLess(last_update_file, prior)

C14_WatermarkWrittenOnce ==
    [][/\ last_update_file' # last_update_file => writes' = writes + 1
       /\ writes' > writes =>
             /\ writes = 0
             /\ incremental
             /\ rpc = "loop" /\ step > Len(Schedule)
             /\ rpc' = "done"
       /\ (rpc' = "exit" \/ ~incremental) =>
             /\ writes' = 0
             /\ last_update_file' = prior']_vars

C14_Witness ==
    /\ rpc = "exit" /\ incremental
    /\ run = 2
    /\ last.repo = 2
    /\ prior = T3
    /\ last_update = T1
    /\ last_update_file = T3
    /\ writes = 0

\* C17: with skip-existing set and the marker of its kind present, a
\* synchronizer returns without any HTTP request, for every kind.
C17_SkipExistingNoRequest ==
    (skip_existing /\ last.pass \in ResourceKinds /\ last.marker) =>
        last.requests = 0

\* C18: when the hooks request is refused, backup_hooks returns to the loop:
\* the process does not exit, the refusal is reported as a skip, no hooks
\* file is written, and the next pass is the following one of the schedule,
\* the releases pass of the same repository when releases are wanted.
C18_HooksRefusalAbsorbed ==
    [][(Due("hooks") /\ last'.failure \in RefusalCodes) =>
          /\ rpc' = "loop"
          /\ exit_code' = 0
          /\ last'.outcome = "unreadable"
          /\ ~last'.wrote
          /\ step' = step + 1
          /\ repositories' = repositories
          /\ Wanted("releases") =>
                /\ Schedule[step + 1].pass = "releases"
                /\ Schedule[step + 1].repo = Schedule[step].repo]_vars

C18_Witness ==
    /\ last.pass = "hooks" /\ last.failure = 404 /\ last.outcome = "unreadable"
    /\ last.repo = 1 /\ Len(repositories) = 2
    /\ rpc = "loop" /\ exit_code = 0
    /\ step <= Len(Schedule)
    /\ Schedule[step] = [repo |-> 1, pass |-> "releases"]

\* C19: a fetch that fails with any status ends the process, whatever the
\* pass; only a refusal of the hooks request is absorbed.
C19_FetchFailureFatal ==
    (last.failure # 0 /\ ~(last.pass = "hooks" /\ last.failure \in RefusalCodes)) =>
        (rpc = "exit" /\ exit_code = ExitStatus)

(***************************************************************************)
(* Claims about fetch_repository, checked under SpecMirror                 *)
(***************************************************************************)
CloneCommands == {"git clone", "git clone --mirror", "git lfs clone",
                  "git lfs clone --mirror"}
UpdateCommands == {RemoteShow, RemoteRm, RemoteAdd, RemoteSetUrl,
                   "git fetch --all --force --tags --prune",
                   "git lfs fetch --all --prune"}
CommandsRun == {cmds[i].cmd : i \in 1..Len(cmds)}

\* C20: once the probe has exited with 128 the call is over and no clone,
\* remote or fetch command is run, whatever bare_clone, lfs_clone and the
\* local directory are; after any other exit code of the probe the call goes
\* on to the clone or to the update, and is not over before it has run a
\* command of one of them.
C20_ProbeNotInitialized ==
    /\ initialized = 128 =>
          /\ mpc = "done"
          /\ CommandsRun \cap (CloneCommands \cup UpdateCommands) = {}
          /\ cmds[Len(cmds)].cmd = LsRemoteCommand
    /\ initialized \notin {-1, 128} =>
          /\ mpc \in {"clone", "update", "fetch", "done", "raised"}
          /\ mpc = "clone" => local_dir # (IF bare_clone THEN "bare" ELSE "worktree")
          /\ mpc = "update" => local_dir = (IF bare_clone THEN "bare" ELSE "worktree")
          /\ mpc \in {"fetch", "done", "raised"} =>
                CommandsRun \cap (CloneCommands \cup UpdateCommands) # {}

C20_Witness ==
    /\ initialized = 128 /\ mpc = "done"
    /\ bare_clone /\ lfs_clone /\ local_dir = "bare" /\ ~skip_existing
    /\ Len(cmds) = 2
    /\ cmds[2] = [cmd |-> LsRemoteCommand, rc |-> 128]

\* the local directory holds the mirror asked for
MirrorPresent == IF bare_clone THEN local_dir = "bare" ELSE local_dir = "worktree"
\* the commands run by the step, in order
NewCommands == [i \in 1..(Len(cmds') - Len(cmds)) |-> cmds'[Len(cmds) + i]]
NewNames == {NewCommands[i].cmd : i \in DOMAIN NewCommands}

\* C21: a call made with skip_existing while the mirror is present returns
\* at once: the probe, a clone, a remote command or a fetch is not run (only
\* the is-bare-repository check of a bare mirror is) and the mirror and its
\* origin are as they were.
C21_SkipExistingMirror ==
    [][(mpc = "begin" /\ skip_existing /\ MirrorPresent) =>
          /\ mpc' = "done"
          /\ initialized' = -1
          /\ NewNames \subseteq {RevParse}
          /\ NewNames = {RevParse} <=> bare_clone
          /\ local_dir' = local_dir
          /\ has_origin' = has_origin
          /\ origin_url' = origin_url]_vars

C21_Witness ==
    /\ mpc = "done" /\ skip_existing
    /\ bare_clone /\ local_dir = "bare"
    /\ initialized = -1
    /\ cmds = <<[cmd |-> RevParse, rc |-> 0]>>

\* C22: a step that runs a clone command runs exactly that one command, the
\* one of the table of (bare, lfs), when no mirror is present and no clone or
\* update command has been run, and the call is over after it; a step that
\* runs an update command is made with the mirror present and no clone
\* command run.
C22_CloneOrUpdate ==
    [][/\ NewNames \cap CloneCommands # {} =>
             /\ ~MirrorPresent
             /\ Len(cmds') = Len(cmds) + 1
             /\ NewNames = {CASE bare_clone /\ lfs_clone -> "git lfs clone --mirror"
                              [] bare_clone /\ ~lfs_clone -> "git clone --mirror"
                              [] ~bare_clone /\ lfs_clone -> "git lfs clone"
                              [] OTHER -> "git clone"}
             /\ CommandsRun \cap (CloneCommands \cup UpdateCommands) = {}
             /\ mpc' = "done"
       /\ NewNames \cap UpdateCommands # {} =>
             /\ MirrorPresent
             /\ CommandsRun \cap CloneCommands = {}]_vars

C22_Witness ==
    /\ mpc = "done" /\ bare_clone /\ lfs_clone
    /\ local_dir = "bare"
    /\ cmds = <<[cmd |-> LsRemoteCommand, rc |-> 0],
                [cmd |-> "git lfs clone --mirror", rc |-> 0]>>

NamesOf(commands) == [i \in DOMAIN commands |-> commands[i].cmd]

C24_GitFailureNotFatal ==
    (\E i \in 1..Len(cmds) :
        cmds[i].rc # 0 /\ ~(cmds[i].cmd = LsRemoteCommand /\ cmds[i].rc = 128)) =>
        mpc # "raised"

(***************************************************************************)
(* Further claims about the fetcher and backup_pulls                       *)
(***************************************************************************)
\* C28: a fetch stops issuing requests: once a request is answered with 200
\* and the end of the collection (an object, or a list shorter than a page),
\* no further request is issued.
C28_FetchStops ==
    (r.code = 200 /\ (r.kind = "dict" \/ r.len < per_page)) => pc # "urlopen"

\* C30: in list mode with a cutoff, once the loop over the states is left
\* both the open and the closed list have been requested, and when
\* backup_pulls has saved and both lists are sorted newest first, every pull
\* of either list that is not older than the cutoff is in the saved set.
C30_ListsCutIndependently ==
    (since # NoSince /\ ~include_pull_details /\ ppc \in {"save", "done"}) =>
        /\ listReqs["open"] >= 1
        /\ listReqs["closed"] >= 1
        /\ (ppc = "done" /\ \A st \in DOMAIN lists : SortedDescending(lists[st])) =>
              \A st \in DOMAIN lists : \A k \in 1..ListLen(lists[st]) :
                  ~StrLess(UpdatedAt(lists[st], k), since) =>
                      PullNumber(st, k) \in DOMAIN saved

C30_Witness ==
    /\ ppc = "done" /\ since = T2 /\ ~include_pull_details
    /\ lists["open"] = Runs(Descending, 1, 0, 1)
    /\ lists["closed"] = Runs(Descending, 1, 1, 1)
    /\ DOMAIN saved = {PullNumber("open", 1), PullNumber("closed", 1),
                       PullNumber("closed", 2)}
    /\ listReqs["open"] = 1 /\ listReqs["closed"] = 1

(***************************************************************************)
(* Further claims about backup_repositories, checked under SpecRun         *)
(***************************************************************************)
PassRank(pass) ==
    CHOOSE i \in 1..8 :
        <<"repository", "wiki", "issues", "pulls", "milestones", "labels", "hooks",
          "releases">>[i] = pass

\* C25: the passes of a run are executed in the lexicographic order of
\* (position of the repository in the list, rank of the pass): a pass that is
\* executed after another one in the same run is of a later repository, or of
\* the same repository and of a later rank.
C25_PassOrder ==
    [][(last' # last /\ last'.pass # "none") =>
          /\ last'.repo \in 1..Len(repositories)
          /\ last.pass # "none" =>
                \/ last.repo < last'.repo
                \/ /\ last.repo = last'.repo
                   /\ PassRank(last.pass) < PassRank(last'.pass)]_vars

C25_Witness ==
    /\ rpc = "done" /\ include_everything
    /\ Len(repositories) = 2
    /\ ~repositories[1].is_gist /\ ~repositories[2].is_gist
    /\ last.repo = 2 /\ last.pass = "releases" /\ last.outcome = "saved"
    /\ step = Len(Schedule) + 1

\* C26: the only pass executed for a gist is the clone, after which the gist
\* metadata is written, whatever the include flags.
C26_GistShortCircuit ==
    (last.pass # "none" /\ repositories[last.repo].is_gist) =>
        /\ last.pass = "repository"
        /\ last.outcome = "fetched" => last.wrote

C26_Witness ==
    /\ rpc = "done" /\ include_everything
    /\ Len(repositories) = 1 /\ repositories[1].is_gist
    /\ last.repo = 1 /\ last.pass = "repository" /\ last.wrote
    /\ step = 2

\* C29: in a run with skip-existing that follows a complete successful run
\* over the same repositories, no pass of the six resource kinds issues a
\* list request.
C29_RerunFetchesNothing ==
    (rerun /\ rpc # "start" /\ skip_existing /\ last.pass \in ResourceKinds) =>
        last.requests = 0

(***************************************************************************)
(* Claims about filter_repositories, checked under SpecFilter              *)
(***************************************************************************)
SameLetter(c, d) == c = d \/ {c, d} \in {{"G", "g"}, {"O", "o"}, {"C", "c"}}

\* equal but for the case of the letters
SameWord(x, y) ==
    /\ Len(x) = Len(y)
    /\ \A i \in 1..Len(x) : SameLetter(x[i], y[i])

\* the repository passes every filter that is enabled
PassesFilters(repository) ==
    /\ ~filter_args.fork => ~repository.fork
    /\ ~filter_args.private => (~repository.private \/ repository.public)
    /\ filter_args.languages # <<>> =>
          \E i \in 1..Len(filter_args.languages) :
              /\ repository.language # <<>>
              /\ SameWord(repository.language, filter_args.languages[i])
    /\ filter_args.name_regex # <<>> =>
          /\ Len(filter_args.name_regex) <= Len(repository.name)
          /\ \A i \in 1..Len(filter_args.name_regex) :
                repository.name[i] = filter_args.name_regex[i]

OwnedOrStarred(repository) ==
    repository.login = filter_args.user \/ repository.is_starred

\* the list returned is made of the entries of the input at the positions
\* kept, in the order of the input
ReturnsPositions(kept) ==
    \E at \in [1..Len(filtered_repositories) -> 1..Len(unfiltered_repositories)] :
        /\ \A i, j \in DOMAIN at : i < j => at[i] < at[j]
        /\ {at[i] : i \in DOMAIN at} = kept
        /\ \A i \in DOMAIN at :
              filtered_repositories[i] = unfiltered_repositories[at[i]]

\* C27 as stated: the list returned is the subsequence of the input, in input
\* order, of the repositories that pass every enabled filter (fork, private,
\* case-insensitive language, name pattern); for the repositories a (a fork,
\* no owner) and b (language Go, no owner) with fork and languages ["go"] it
\* is b alone.
C27_Original ==
    xpc = "done" =>
        ReturnsPositions({i \in 1..Len(unfiltered_repositories) :
                            PassesFilters(unfiltered_repositories[i])})

\* C27, amended: the list returned is the subsequence of the input, in input
\* order, of the repositories that are owned by args.user or starred and
\* that pass every enabled filter.
C27_OwnedAndFiltered ==
    xpc = "done" =>
        ReturnsPositions({i \in 1..Len(unfiltered_repositories) :
                            /\ OwnedOrStarred(unfiltered_repositories[i])
                            /\ PassesFilters(unfiltered_repositories[i])})

C27_Witness ==
    /\ xpc = "done"
    /\ ~filter_args.fork
    /\ filter_args.languages = << <<"g", "o">> >>
    /\ Len(unfiltered_repositories) = 2
    /\ unfiltered_repositories[1].name = <<"a">>
    /\ unfiltered_repositories[1].login = "user"
    /\ unfiltered_repositories[1].fork
    /\ unfiltered_repositories[2].name = <<"b">>
    /\ unfiltered_repositories[2].login = "user"
    /\ unfiltered_repositories[2].language = <<"G", "o">>
    /\ filtered_repositories = <<unfiltered_repositories[2]>>

(***************************************************************************)
(* Further claims about fetch_repository, checked under SpecMirror         *)
(***************************************************************************)
\* the part of a URL that is the credential: the token, or the password
Credential(url) ==
    IF url.password = "x-oauth-basic" THEN url.username ELSE url.password

\* C31: no line written to stdout or stderr by fetch_repository shows the
\* credential of the remote URL: every line that shows the remote URL shows
\* it with the credential masked.
C31_CredentialMasked ==
    \A i \in 1..Len(shown) :
        (shown[i].url # NoUrl /\ Credential(remote_url) # "") =>
            Credential(remote_url) \notin {shown[i].url.username, shown[i].url.password}

(***************************************************************************)
(* Claims about download_file, checked under SpecDownload                  *)
(***************************************************************************)
\* C32: after download_file has returned, there is a file at the path of the
\* asset only if every chunk of the asset is in it: a download that failed
\* part-way has left no file.
C32_NoPartialFile ==
    (dpc = "done" /\ written # -1) => written = asset_size

(***************************************************************************)
(* Claims about the wiki URL, checked under SpecWiki                       *)
(***************************************************************************)
\* C33: the URL handed to the mirror for the wiki is the URL of the
\* repository with its last four characters, .git, replaced by .wiki.git and
\* nothing else changed.
C33_OnlySuffixReplaced ==
    wpc = "done" =>
        wiki_url = SubSeq(repo_url, 1, Len(repo_url) - 4)
                      \o <<".", "w", "i", "k", "i", ".", "g", "i", "t">>

====
